---- MODULE Spec2Model ----
(***************************************************************************)
(* Model of src/escpos/magicencode.py: the Encoder (code page search with  *)
(* a memory of used pages) and the MagicEncode session that turns text     *)
(* into code-page switch commands and encoded bytes sent to driver._raw.   *)
(*                                                                         *)
(* Every public method is one action.  The methods are pure operators on a *)
(* session record s = [encoding, disabled, used, out, err]: out is the     *)
(* sequence of driver._raw calls made so far by the running method, err    *)
(* the exception that ended it ("" when it returned normally).  A session  *)
(* outlives a call that raised: its caller may catch the exception and go  *)
(* on.  The variable call records the latest call until Return.            *)
(*                                                                         *)
(* The module is written for Python 2 and Python 3 (it imports six); the   *)
(* variable python is the interpreter of a behaviour, either one.          *)
(***************************************************************************)
EXTENDS Integers, Sequences, FiniteSets, TLC

VARIABLES
    python,          \* the major version of the interpreter running the module (2 or 3)
    codepages,       \* Encoder.codepages: the profile, page name -> selector
    used_encodings,  \* Encoder.used_encodings
    constructed,     \* TRUE once MagicEncode.__init__ has returned normally
    encoding,        \* MagicEncode.encoding (None: unknown)
    disabled,        \* MagicEncode.disabled (pinned mode)
    defaultsymbol,   \* MagicEncode.defaultsymbol (fallback character)
    initialEncoding, \* history: the encoding __init__ stored
    lastSwitch,      \* history: page of the last switch command sent (None: none yet)
    everWritten,     \* history: TRUE once driver._raw has been called
    pinnedPage,      \* history: the page the session was pinned to by __init__ or
                     \* force_encoding (None while it is not pinned)
    call             \* history: the latest method call (op, its arguments name, flag and
                     \* text), what it returned (ret), sent (out) or raised (err), and
                     \* the state before it (pre)

vars == <<python, codepages, used_encodings, constructed, encoding, disabled,
          defaultsymbol, initialEncoding, lastSwitch, everWritten, pinnedPage, call>>

----------------------------------------------------------------------------
(* Bounds *)

\* Longest text handed to write().
MaxLen == 2

\* Depth of nested write() calls at which the interpreter gives up with a
\* RecursionError (sys.getrecursionlimit() in CPython, scaled down).
RecursionLimit == 3

----------------------------------------------------------------------------
(* Values *)

\* The interpreters the module is written for (it imports six).
PythonVersions == {2, 3}

\* Python's None; no page bears this name.
None == "None"

\* "not x" for an encoding argument: None and the empty string are falsy.
Falsy(x) == x = None \/ x = ""

\* Characters: "a" (ASCII), "Aacute" (U+00C1), "euro" (U+20AC), "cjk"
\* (U+4E2D, in no single-byte page) and "?" (the default fallback symbol).
TextChars == {"a", "Aacute", "euro", "cjk"}

DefaultSymbols == {"?", "euro"}

\* The characters of TextChars and DefaultSymbols that are ASCII.
AsciiChars == {"a", "?"}

\* Page names a caller may pass: the three pages of the larger profile (two
\* of them pages of the codec registry that the smaller profile lacks), a
\* name nobody knows, a non-canonical spelling of cp437 and the empty string.
Names == {"cp437", "cp852", "cp858", "bogus", "CP437", ""}

\* The profiles driver.profile.get_code_pages() may return.
Profile1 == ("cp437" :> 0)
Profile3 == ("cp437" :> 0) @@ ("cp852" :> 18) @@ ("cp858" :> 19)
Profiles == {Profile1, Profile3}

\* Text values: unicode strings, byte strings and None.
Unicode(chars) == [type |-> "unicode", chars |-> chars]
Bytes(chars) == [type |-> "bytes", chars |-> chars]
NoText == [type |-> "NoneType", chars |-> <<>>]

SeqsUpTo(S, n) == UNION {[1..k -> S] : k \in 0..n}

WriteTexts == {Unicode(c) : c \in SeqsUpTo(TextChars, MaxLen)}
                 \cup {Bytes(<<"a">>), Bytes(<<"Aacute">>)}

EmitTexts == {NoText, Bytes(<<"a">>), Unicode(<<>>), Unicode(<<"a", "cjk">>)}

----------------------------------------------------------------------------
(* codepages.CodePages and constants.CODEPAGE_CHANGE (not in src/) *)

\* CodePages.get_encoding: the canonical (lower-case) form of a name.
CodePagesGetEncoding(name) == IF name = "CP437" THEN "cp437" ELSE name

\* The single-byte tables of the codec registry.
CodeTables ==
    [cp437  |-> ("a" :> 97) @@ ("?" :> 63),
     cp852  |-> ("a" :> 97) @@ ("?" :> 63) @@ ("Aacute" :> 181),
     cp858  |-> ("a" :> 97) @@ ("?" :> 63) @@ ("Aacute" :> 181) @@ ("euro" :> 213)]

\* The byte a page substitutes under errors="replace".
ReplacementByte == 63

\* CodePages.encode(text, encoding, errors): codec lookup ignores case.
CodePagesEncode(chars, name, errors) ==
    LET codec == CodePagesGetEncoding(name) IN
    IF codec \notin DOMAIN CodeTables
    THEN [err |-> "LookupError", bytes |-> <<>>]
    ELSE LET table == CodeTables[codec] IN
         IF errors = "strict" /\ \E i \in 1..Len(chars) : chars[i] \notin DOMAIN table
         THEN [err |-> "UnicodeEncodeError", bytes |-> <<>>]
         ELSE [err |-> "",
               bytes |-> [i \in 1..Len(chars) |->
                            IF chars[i] \in DOMAIN table THEN table[chars[i]]
                            ELSE ReplacementByte]]

\* CODEPAGE_CHANGE: ESC 't'.
CODEPAGE_CHANGE == <<27, 116>>

----------------------------------------------------------------------------
(* driver._raw calls *)

\* The argument of driver._raw at lines 206-209,
\* b'{}{}'.format(CODEPAGE_CHANGE, six.int2byte(get_sequence(encoding))),
\* seq being the outcome of get_sequence.  bytes has a format method under
\* Python 2 only: under Python 3 looking it up raises AttributeError before
\* get_sequence is called.
SwitchCommand(page, seq) ==
    IF python = 3 THEN [err |-> "AttributeError", raw |-> <<>>]
    ELSE IF seq.err # "" THEN [err |-> seq.err, raw |-> <<>>]
    ELSE [err |-> "",
          raw |-> [kind |-> "switch", page |-> page,
                   bytes |-> CODEPAGE_CHANGE \o <<seq.val>>]]

TextChunk(page, bytes) ==
    [kind |-> "text", page |-> page, bytes |-> bytes]

----------------------------------------------------------------------------
(* Encoder *)

\* Encoder.get_sequence: int(self.codepages[encoding]), KeyError if absent.
get_sequence(name) ==
    IF name \in DOMAIN codepages
    THEN [err |-> "", val |-> codepages[name]]
    ELSE [err |-> "KeyError", val |-> 0]

\* Encoder.get_encoding: canonical name, ValueError if not in the profile.
get_encoding(name) ==
    LET canonical == CodePagesGetEncoding(name) IN
    IF canonical \in DOMAIN codepages
    THEN [err |-> "", val |-> canonical]
    ELSE [err |-> "ValueError", val |-> None]

\* Encoder.can_encode: truthy iff the strict encoding of char succeeds.
can_encode(name, char) ==
    LET r == CodePagesEncode(<<char>>, name, "strict") IN
    r.err = "" /\ r.bytes # <<>>

\* The sort key with the selector negated: higher slots first.
encoding_sort_func_descending(item, used) == <<item[1] \in used, 0 - item[2]>>

\* Encoder.__encoding_sort_func: the sort key of a (name, selector) item.
encoding_sort_func(item, used) == <<item[1] \in used, item[2]>>

\* Python's tuple order on (bool, int) keys: False < True, then the integer.
KeyLess(k1, k2) ==
    \/ (~k1[1] /\ k2[1])
    \/ (k1[1] = k2[1] /\ k1[2] < k2[2])

RECURSIVE SortItems(_, _)
SortItems(items, used) ==
    IF items = {} THEN <<>>
    ELSE LET first == CHOOSE x \in items : \A y \in items \ {x} :
                          KeyLess(encoding_sort_func(x, used), encoding_sort_func(y, used))
         IN <<first>> \o SortItems(items \ {first}, used)

\* sorted(self.codepages.items(), key=self.__encoding_sort_func)
sorted_encodings(used) ==
    SortItems({<<n, codepages[n]>> : n \in DOMAIN codepages}, used)

\* find_suitable_encoding remembering only the page it found last.
find_suitable_encoding_forgetful(used, char) ==
    LET order == sorted_encodings(used)
        hits == {i \in 1..Len(order) : can_encode(order[i][1], char)}
    IN IF hits = {} THEN [ret |-> None, used |-> used]
       ELSE LET i == CHOOSE j \in hits : \A k \in hits : j <= k
            IN [ret |-> order[i][1], used |-> {order[i][1]}]

\* Encoder.find_suitable_encoding: the first page in sorted order that can
\* encode char, remembered in used_encodings; None if there is none.
find_suitable_encoding(used, char) ==
    LET order == sorted_encodings(used)
        hits == {i \in 1..Len(order) : can_encode(order[i][1], char)}
    IN IF hits = {} THEN [ret |-> None, used |-> used]
       ELSE LET i == CHOOSE j \in hits : \A k \in hits : j <= k
            IN [ret |-> order[i][1], used |-> used \cup {order[i][1]}]

----------------------------------------------------------------------------
(* MagicEncode *)

\* write_with_encoding without the test "encoding != self.encoding": the
\* switch command is sent on every call.
write_with_encoding_always_switch(s, name, text) ==
    IF text.type = "bytes" THEN [s EXCEPT !.err = "Error"]
    ELSE
      LET cmd == SwitchCommand(name, get_sequence(name))
          s1 == IF cmd.err # ""
                THEN [s EXCEPT !.encoding = name, !.err = cmd.err]
                ELSE [s EXCEPT !.encoding = name, !.out = Append(@, cmd.raw)]
      IN IF s1.err # "" \/ text.chars = <<>> THEN s1
         ELSE LET r == CodePagesEncode(text.chars, name, "replace") IN
              IF r.err # "" THEN [s1 EXCEPT !.err = r.err]
              ELSE [s1 EXCEPT !.out = Append(@, TextChunk(name, r.bytes))]

\* write_with_encoding testing the type of text only when it comes to encode
\* it, after the switch command.
write_with_encoding_late_type_check(s, name, text) ==
    LET s1 == IF name # s.encoding
              THEN LET cmd == SwitchCommand(name, get_sequence(name)) IN
                   IF cmd.err # ""
                   THEN [s EXCEPT !.encoding = name, !.err = cmd.err]
                   ELSE [s EXCEPT !.encoding = name, !.out = Append(@, cmd.raw)]
              ELSE s
    IN IF s1.err # "" \/ text.chars = <<>> THEN s1
       ELSE IF text.type = "bytes" THEN [s1 EXCEPT !.err = "Error"]
       ELSE LET r == CodePagesEncode(text.chars, name, "replace") IN
            IF r.err # "" THEN [s1 EXCEPT !.err = r.err]
            ELSE [s1 EXCEPT !.out = Append(@, TextChunk(name, r.bytes))]

\* MagicEncode.write_with_encoding: the type test, then the assignment of
\* self.encoding and the switch command if the page differs from the tracked
\* one, then the text.
write_with_encoding(s, name, text) ==
    IF text.type = "bytes" THEN [s EXCEPT !.err = "Error"]
    ELSE
      LET s1 == IF name # s.encoding
                THEN LET cmd == SwitchCommand(name, get_sequence(name)) IN
                     IF cmd.err # ""
                     THEN [s EXCEPT !.encoding = name, !.err = cmd.err]
                     ELSE [s EXCEPT !.encoding = name, !.out = Append(@, cmd.raw)]
                ELSE s
      IN IF s1.err # "" \/ text.chars = <<>> THEN s1
         ELSE LET r == CodePagesEncode(text.chars, name, "replace") IN
              IF r.err # "" THEN [s1 EXCEPT !.err = r.err]
              ELSE [s1 EXCEPT !.out = Append(@, TextChunk(name, r.bytes))]

\* force_encoding forgetting the tracked page when it un-pins.
force_encoding_unpin_resets(s, name) ==
    IF Falsy(name) THEN [s EXCEPT !.disabled = FALSE, !.encoding = None]
    ELSE LET s1 == write_with_encoding(s, name, NoText) IN
         IF s1.err # "" THEN s1 ELSE [s1 EXCEPT !.disabled = TRUE]

\* MagicEncode.force_encoding
force_encoding(s, name) ==
    IF Falsy(name) THEN [s EXCEPT !.disabled = FALSE]
    ELSE LET s1 == write_with_encoding(s, name, NoText) IN
         IF s1.err # "" THEN s1 ELSE [s1 EXCEPT !.disabled = TRUE]

\* The test of write()'s loop trusting the current page only once the
\* Encoder has it in its memory.
current_page_works_if_used(s, char) ==
    s.encoding \in s.used /\ can_encode(s.encoding, char)

\* The test of write()'s loop: the current code page works for this character.
current_page_works(s, char) ==
    ~Falsy(s.encoding) /\ can_encode(s.encoding, char)

RECURSIVE write(_, _, _)
RECURSIVE write_chars(_, _, _, _)
RECURSIVE handle_character_failed(_, _, _)

\* MagicEncode.write, depth counting the write() frames on the stack.
\* Iterating over None raises TypeError.
write(s, text, depth) ==
    IF depth > RecursionLimit THEN [s EXCEPT !.err = "RecursionError"]
    ELSE IF s.disabled THEN write_with_encoding(s, s.encoding, text)
    ELSE IF text.type = "NoneType" THEN [s EXCEPT !.err = "TypeError"]
    ELSE write_chars(s, text, 1, depth)

\* The "for char in text" loop of write, from element i on.  The elements
\* of a unicode string are unicode characters.  Those of a byte string are
\* integers under Python 3, and encoding one raises AttributeError in the
\* first can_encode; under Python 2 they are byte strings of length one,
\* which encode as the character does when it is ASCII and raise
\* UnicodeDecodeError in the first can_encode of a known page otherwise.
write_chars(s, text, i, depth) ==
    IF s.err # "" \/ i > Len(text.chars) THEN s
    ELSE LET char == text.chars[i]
             element == [type |-> text.type, chars |-> <<char>>]
         IN
         IF text.type = "bytes" /\ python = 3
         THEN [s EXCEPT !.err = "AttributeError"]
         ELSE IF text.type = "bytes" /\ char \notin AsciiChars
         THEN [s EXCEPT !.err = "UnicodeDecodeError"]
         ELSE IF current_page_works(s, char)
         THEN write_chars(write_with_encoding(s, s.encoding, element),
                          text, i + 1, depth)
         ELSE LET f == find_suitable_encoding(s.used, char)
                  s1 == [s EXCEPT !.used = f.used]
              IN IF Falsy(f.ret)
                 THEN write_chars(handle_character_failed(s1, char, depth),
                                  text, i + 1, depth)
                 ELSE write_chars(write_with_encoding(s1, f.ret, element),
                                  text, i + 1, depth)

\* MagicEncode._handle_character_failed
handle_character_failed(s, char, depth) ==
    write(s, Unicode(<<defaultsymbol>>), depth + 1)

\* MagicEncode.__init__
init(name, isDisabled) ==
    IF isDisabled /\ Falsy(name)
    THEN [err |-> "Error", encoding |-> None]
    ELSE IF Falsy(name) THEN [err |-> "", encoding |-> None]
    ELSE LET e == get_encoding(name) IN [err |-> e.err, encoding |-> e.val]

----------------------------------------------------------------------------
(* State machine *)

Session == [encoding |-> encoding, disabled |-> disabled,
            used |-> used_encodings, out |-> <<>>, err |-> ""]

Before == [encoding |-> encoding, disabled |-> disabled, used |-> used_encodings,
           defaultsymbol |-> defaultsymbol,
           lastSwitch |-> lastSwitch, everWritten |-> everWritten]

Switches(out) == SelectSeq(out, LAMBDA x : x.kind = "switch")

LastSwitchAfter(prev, out) ==
    LET sw == Switches(out) IN IF sw = <<>> THEN prev ELSE sw[Len(sw)].page

\* The session fields, the encoder memory and the history take the result s.
Commit(s, op, name, text) ==
    /\ encoding' = s.encoding
    /\ disabled' = s.disabled
    /\ used_encodings' = s.used
    /\ lastSwitch' = LastSwitchAfter(lastSwitch, s.out)
    /\ everWritten' = (everWritten \/ s.out # <<>>)
    /\ pinnedPage' = IF op = "force_encoding" /\ s.err = "" /\ s.disabled
                     THEN name
                     ELSE IF s.disabled THEN pinnedPage ELSE None
    /\ call' = [op |-> op, name |-> name, flag |-> FALSE, text |-> text, ret |-> None,
                out |-> s.out, err |-> s.err, pre |-> Before]
    /\ UNCHANGED <<python, codepages, constructed, defaultsymbol, initialEncoding>>

\* No call in progress or awaiting its caller.
NoCall == [op |-> "none", name |-> None, flag |-> FALSE, text |-> NoText, ret |-> None,
           out |-> <<>>, err |-> "",
           pre |-> [encoding |-> None, disabled |-> FALSE, used |-> {},
                    defaultsymbol |-> None,
                    lastSwitch |-> None, everWritten |-> FALSE]]

Init ==
    /\ python \in PythonVersions
    /\ codepages \in Profiles
    /\ used_encodings = {}
    /\ constructed = FALSE
    /\ encoding = None
    /\ disabled = FALSE
    /\ defaultsymbol = "?"
    /\ initialEncoding = None
    /\ lastSwitch = None
    /\ everWritten = FALSE
    /\ pinnedPage = None
    /\ call = NoCall

Construct(name, isDisabled, symbol) ==
    /\ call = NoCall
    /\ ~constructed
    /\ LET r == init(name, isDisabled) IN
       /\ constructed' = (r.err = "")
       /\ encoding' = IF r.err = "" THEN r.encoding ELSE encoding
       /\ initialEncoding' = IF r.err = "" THEN r.encoding ELSE initialEncoding
       /\ disabled' = IF r.err = "" THEN isDisabled ELSE disabled
       /\ defaultsymbol' = IF r.err = "" THEN symbol ELSE defaultsymbol
       /\ pinnedPage' = IF r.err = "" /\ isDisabled THEN r.encoding ELSE None
       /\ call' = [op |-> "init", name |-> name, flag |-> isDisabled,
                   text |-> NoText, ret |-> None, out |-> <<>>, err |-> r.err,
                   pre |-> Before]
    /\ UNCHANGED <<python, codepages, used_encodings, lastSwitch, everWritten>>

ForceEncoding(name) ==
    /\ call = NoCall
    /\ constructed
    /\ Commit(force_encoding(Session, name), "force_encoding", name, NoText)

Write(text) ==
    /\ call = NoCall
    /\ constructed
    /\ Commit(write(Session, text, 1), "write", None, text)

WriteWithEncoding(name, text) ==
    /\ call = NoCall
    /\ constructed
    /\ Commit(write_with_encoding(Session, name, text), "write_with_encoding", name, text)

FindSuitableEncoding(char) ==
    /\ call = NoCall
    /\ constructed
    /\ LET f == find_suitable_encoding(used_encodings, char) IN
       /\ used_encodings' = f.used
       /\ call' = [op |-> "find_suitable_encoding", name |-> None, flag |-> FALSE,
                   text |-> Unicode(<<char>>), ret |-> f.ret,
                   out |-> <<>>, err |-> "", pre |-> Before]
    /\ UNCHANGED <<python, codepages, constructed, encoding, disabled, defaultsymbol,
                   initialEncoding, lastSwitch, everWritten, pinnedPage>>

\* The caller has the result (or the exception) of the latest call and goes
\* on: the record of the call is history, the program's state stays.
Return ==
    /\ call # NoCall
    /\ call' = NoCall
    /\ UNCHANGED <<python, codepages, used_encodings, constructed, encoding, disabled,
                   defaultsymbol, initialEncoding, lastSwitch, everWritten, pinnedPage>>

Next ==
    \/ \E name \in Names \cup {None}, d \in BOOLEAN, symbol \in DefaultSymbols :
          Construct(name, d, symbol)
    \/ \E name \in Names \cup {None} : ForceEncoding(name)
    \/ \E text \in WriteTexts : Write(text)
    \/ \E name \in Names, text \in EmitTexts : WriteWithEncoding(name, text)
    \/ \E char \in TextChars : FindSuitableEncoding(char)
    \/ Return

Spec == Init /\ [][Next]_vars

----------------------------------------------------------------------------
(* Vocabulary of the properties *)

\* The single-byte table a page name stands for, if it stands for one.
IsCodePage(page) == CodePagesGetEncoding(page) \in DOMAIN CodeTables
PageTable(page) == CodeTables[CodePagesGetEncoding(page)]
Encodes(page, char) == IsCodePage(page) /\ char \in DOMAIN PageTable(page)

InProfile(name) == CodePagesGetEncoding(name) \in DOMAIN codepages
NoProfilePageEncodes(char) == \A p \in DOMAIN codepages : ~Encodes(p, char)

\* A switch command for a page as the sink receives it.
SwitchItem(page, selector) ==
    [kind |-> "switch", page |-> page, bytes |-> CODEPAGE_CHANGE \o <<selector>>]

\* The text chunks of a sequence of driver._raw calls, and where they are.
Chunks(out) == SelectSeq(out, LAMBDA x : x.kind = "text")
RECURSIVE ChunkPositions(_, _)
ChunkPositions(out, i) ==
    IF i > Len(out) THEN <<>>
    ELSE (IF out[i].kind = "text" THEN <<i>> ELSE <<>>) \o ChunkPositions(out, i + 1)

\* The page of the last switch command sent before out[i].
SwitchBefore(i) == LastSwitchAfter(call.pre.lastSwitch, SubSeq(call.out, 1, i - 1))

AutoWrite == call.op = "write" /\ ~call.pre.disabled /\ call.text.type = "unicode"
PinnedWrite == call.op = "write" /\ call.pre.disabled /\ call.text.type = "unicode"

----------------------------------------------------------------------------
(* Properties *)

\* C1: the calls to the sink follow the order of the characters (an Auto
\* write that returns has sent one chunk per character, the i-th holding
\* the i-th character or the fallback), and every text chunk encoded under
\* a page P is preceded by a switch command for P with no switch command
\* for another page in between, except text under the initial encoding
\* before any switch command.
C1_SwitchPrecedesText ==
    /\ \A i \in 1..Len(call.out) :
          call.out[i].kind = "text" =>
             \/ SwitchBefore(i) = call.out[i].page
             \/ /\ SwitchBefore(i) = None
                /\ initialEncoding # None
                /\ call.out[i].page = initialEncoding
    /\ (AutoWrite /\ call.err = "") =>
          LET chunks == Chunks(call.out) IN
          /\ Len(chunks) = Len(call.text.chars)
          /\ \A i \in 1..Len(chunks) :
                \E c \in {call.text.chars[i], defaultsymbol} :
                   /\ Encodes(chunks[i].page, c)
                   /\ chunks[i].bytes = <<PageTable(chunks[i].page)[c]>>

\* C2: the tracked page, once set, is the page of the most recently sent
\* switch command (before any switch command: the page given at
\* construction); it is never stale relative to the sink.
C2_TrackedPageIsLastSwitch ==
    (constructed /\ ~Falsy(encoding)) =>
        IF lastSwitch # None THEN encoding = lastSwitch
        ELSE encoding = initialEncoding

\* C3: once find_suitable_encoding has returned E, a later
\* find_suitable_encoding(c) for a character E can encode does not return a
\* page that is absent from the Encoder memory.
C3_UsedPagePreferred ==
    (call.op = "find_suitable_encoding"
       /\ \E e \in call.pre.used : Encodes(e, call.text.chars[1]))
    => call.ret \in call.pre.used

\* C4: write in Auto mode terminates for every text, also when no page of
\* the profile encodes the fallback character: the fallback substitution
\* does not recurse until the interpreter's recursion limit.
C4_WriteTerminates ==
    AutoWrite => call.err # "RecursionError"

\* The bytes of the text chunks of out, one after the other.
RECURSIVE ChunkBytes(_)
ChunkBytes(out) ==
    IF out = <<>> THEN <<>>
    ELSE (IF Head(out).kind = "text" THEN Head(out).bytes ELSE <<>>) \o ChunkBytes(Tail(out))

\* C5: while the session is pinned to a page P, write(text) sends no
\* switch command and sends the whole text as one chunk encoded under P, a
\* character P cannot encode becoming P's replacement byte (not the
\* fallback character); the tracked page stays P, the session stays pinned
\* and the Encoder memory is unchanged.  P is the page the session was
\* pinned to by __init__ or force_encoding.
C5_PinnedWriteOneChunk ==
    PinnedWrite =>
        LET P == pinnedPage
            chars == call.text.chars
        IN /\ call.err = ""
           /\ call.out =
                 IF chars = <<>> THEN <<>>
                 ELSE <<TextChunk(P, [i \in 1..Len(chars) |->
                                        IF Encodes(P, chars[i]) THEN PageTable(P)[chars[i]]
                                        ELSE ReplacementByte])>>
           /\ encoding = P
           /\ disabled
           /\ used_encodings = call.pre.used

\* C6: a session is never pinned without a page: constructing it pinned
\* without an encoding raises Error and sends nothing, and in every state
\* the pinned flag implies a non-empty tracked page.
C6_PinnedHasPage ==
    /\ disabled => ~Falsy(encoding)
    /\ (call.op = "init" /\ call.flag /\ Falsy(call.name)) =>
          /\ call.err = "Error"
          /\ ~constructed
          /\ call.out = <<>>
          /\ ~everWritten

\* C7: in Auto mode a character that the tracked page can encode is sent
\* as the next call to the sink, as one chunk under that page, with no
\* switch command, whatever the Encoder memory holds.  The tracked page
\* before the first character is the session's, before a later character
\* the page of the chunk sent for the character before it.
C7_CurrentPageKept ==
    AutoWrite =>
        LET chars == call.text.chars
            pos == ChunkPositions(call.out, 1)
        IN \A i \in 1..Len(chars) :
              (i - 1 <= Len(pos)) =>
                 LET tracked == IF i = 1 THEN call.pre.encoding
                                ELSE call.out[pos[i - 1]].page
                     at == IF i = 1 THEN 1 ELSE pos[i - 1] + 1
                 IN Encodes(tracked, chars[i]) =>
                       /\ at <= Len(call.out)
                       /\ call.out[at] = TextChunk(tracked, <<PageTable(tracked)[chars[i]]>>)

\* C7 witness: on the three-page profile, write of U+20AC and U+00C1
\* switched to cp858 for the first and sent the second under cp858 with no
\* further switch, although the unused cp852 (lower selector) encodes it.
C7_Witness ==
    /\ AutoWrite
    /\ call.text.chars = <<"euro", "Aacute">>
    /\ "cp852" \notin used_encodings
    /\ call.out = <<SwitchItem("cp858", 19), TextChunk("cp858", <<213>>),
                    TextChunk("cp858", <<181>>)>>

\* C8: in Auto mode, when no page of the profile encodes a character and
\* the tracked page encodes the fallback character, write sends exactly the
\* tracked page's encoding of the fallback character: no switch command, no
\* error, tracked page and Encoder memory unchanged.
C8_FallbackUnderCurrentPage ==
    (AutoWrite /\ Len(call.text.chars) = 1
       /\ NoProfilePageEncodes(call.text.chars[1])
       /\ Encodes(call.pre.encoding, defaultsymbol))
    => /\ call.err = ""
       /\ call.out = <<TextChunk(call.pre.encoding,
                                 <<PageTable(call.pre.encoding)[defaultsymbol]>>)>>
       /\ encoding = call.pre.encoding
       /\ used_encodings = call.pre.used

\* C9: with a profile of exactly one page E, write(text) sends at most one
\* switch command, first and only if E is not the tracked page, and then
\* all of text encoded under E, a replacement (the fallback character's
\* byte or E's replacement byte) standing for each character E cannot
\* encode.
C9_SinglePageProfile ==
    (call.op = "write" /\ call.text.type = "unicode" /\ Cardinality(DOMAIN codepages) = 1)
    => LET E == CHOOSE e \in DOMAIN codepages : TRUE
           chars == call.text.chars
           bytes == ChunkBytes(call.out)
       IN /\ call.err = ""
          /\ Len(Switches(call.out)) <= 1
          /\ Len(Switches(call.out)) = 1 =>
                /\ call.out[1] = SwitchItem(E, codepages[E])
                /\ call.pre.encoding # E
          /\ \A i \in 1..Len(call.out) :
                call.out[i].kind = "text" => call.out[i].page = E
          /\ Len(bytes) = Len(chars)
          /\ \A i \in 1..Len(bytes) :
                IF Encodes(E, chars[i]) THEN bytes[i] = PageTable(E)[chars[i]]
                ELSE \/ bytes[i] = ReplacementByte
                     \/ Encodes(E, defaultsymbol) /\ bytes[i] = PageTable(E)[defaultsymbol]

\* C10: a call given a page name that is not in the profile (__init__,
\* force_encoding, write_with_encoding) raises the unsupported-encoding
\* error (ValueError), sends nothing and leaves the tracked page and the
\* pinned flag as they were.
C10_UnsupportedNameNoEffect ==
    (call.op \in {"init", "force_encoding", "write_with_encoding"}
       /\ ~Falsy(call.name) /\ ~InProfile(call.name) /\ call.text.type # "bytes")
    => /\ call.err = "ValueError"
       /\ call.out = <<>>
       /\ encoding = call.pre.encoding
       /\ disabled = call.pre.disabled

\* C11: write_with_encoding, and write on a pinned session, given a text
\* that is a byte string raises the invalid-input-type error (Error) before
\* anything is sent and without changing the tracked page.
C11_BytesTextRejected ==
    ((call.op = "write_with_encoding" \/ (call.op = "write" /\ call.pre.disabled))
       /\ call.text.type = "bytes")
    => /\ call.err = "Error"
       /\ call.out = <<>>
       /\ encoding = call.pre.encoding
       /\ disabled = call.pre.disabled
       /\ used_encodings = call.pre.used

\* C11 witness: write_with_encoding was given a profile page other than the
\* tracked one, which would have needed a switch command, and a byte string.
C11_Witness ==
    /\ call.op = "write_with_encoding"
    /\ call.text = Bytes(<<"a">>)
    /\ call.name = "cp852"
    /\ call.name \in DOMAIN codepages
    /\ call.pre.encoding = "cp437"
    /\ call.err = "Error"

\* C12: for a session constructed without an initial encoding, the first
\* call ever made to the sink is a code-page switch command.
C12_FirstBytesAreSwitch ==
    (constructed /\ initialEncoding = None /\ ~call.pre.everWritten /\ call.out # <<>>)
    => call.out[1].kind = "switch"

\* C13: the Encoder memory is a subset of the profile's page names, no
\* call makes it lose a page, and find_suitable_encoding returns no page
\* or a page of the profile.
C13_MemoryInProfileAndGrowing ==
    /\ used_encodings \subseteq DOMAIN codepages
    /\ call.pre.used \subseteq used_encodings
    /\ call.op = "find_suitable_encoding" =>
          (call.ret = None \/ call.ret \in DOMAIN codepages)

\* C13 witness: find_suitable_encoding added cp858 to a memory that held
\* cp437.
C13_Witness ==
    /\ call.op = "find_suitable_encoding"
    /\ call.pre.used = {"cp437"}
    /\ call.ret = "cp858"
    /\ used_encodings = {"cp437", "cp858"}

\* C14: write_with_encoding(E, no text) and force_encoding(E) send nothing
\* when E is the tracked page already.
C14_SamePageNoTextSendsNothing ==
    (call.op \in {"write_with_encoding", "force_encoding"}
       /\ call.text = NoText /\ call.name # None
       /\ call.name = call.pre.encoding)
    => call.out = <<>>

\* C14 witness: force_encoding(cp852) on a session that had been switched
\* to cp852 before returned having sent nothing.
C14_Witness ==
    /\ call.op = "force_encoding"
    /\ call.name = "cp852"
    /\ call.pre.encoding = "cp852"
    /\ call.pre.lastSwitch = "cp852"
    /\ call.err = ""
    /\ call.out = <<>>

\* C15: find_suitable_encoding(c) returns no page exactly when no page of
\* the profile encodes c, and then leaves the memory unchanged; otherwise
\* it returns a profile page that encodes c and adds it to the memory, and
\* when no page of the memory encodes c that page has the lowest selector
\* among the profile pages that encode c.
C15_FindSuitableResult ==
    call.op = "find_suitable_encoding" =>
        LET c == call.text.chars[1]
            able == {p \in DOMAIN codepages : Encodes(p, c)}
        IN /\ (call.ret = None) <=> (able = {})
           /\ call.ret = None => used_encodings = call.pre.used
           /\ call.ret # None =>
                 /\ call.ret \in able
                 /\ used_encodings = call.pre.used \cup {call.ret}
                 /\ (able \cap call.pre.used = {}) =>
                       \A p \in able : codepages[call.ret] <= codepages[p]

\* C15 witness: with cp437 in the memory, find_suitable_encoding(U+00C1),
\* which cp852 (18) and cp858 (19) encode, returned cp852.
C15_Witness ==
    /\ call.op = "find_suitable_encoding"
    /\ call.text.chars = <<"Aacute">>
    /\ call.pre.used = {"cp437"}
    /\ call.ret = "cp852"
    /\ used_encodings = {"cp437", "cp852"}

\* C16: force_encoding(P) for a page P of the profile other than the
\* tracked page sends exactly one switch command for P and no text, sets
\* the tracked page to P and pins the session; and every write made while
\* the session stays pinned sends its text encoded under the page the
\* session was pinned to.
C16_ForceEncodingPinsPage ==
    /\ (call.op = "force_encoding" /\ call.name \in DOMAIN codepages
          /\ call.name # call.pre.encoding)
       => /\ call.err = ""
          /\ call.out = <<SwitchItem(call.name, codepages[call.name])>>
          /\ encoding = call.name
          /\ disabled
    /\ (PinnedWrite /\ pinnedPage # None)
       => \A i \in 1..Len(call.out) :
             call.out[i].kind = "text" /\ call.out[i].page = pinnedPage

\* C17: force_encoding with an empty page name only clears the pinned
\* flag: it sends nothing and leaves the tracked page, the fallback
\* character and the Encoder memory as they were.
C17_UnpinOnlyClearsFlag ==
    (call.op = "force_encoding" /\ Falsy(call.name))
    => /\ call.err = ""
       /\ call.out = <<>>
       /\ ~disabled
       /\ encoding = call.pre.encoding
       /\ defaultsymbol = call.pre.defaultsymbol
       /\ used_encodings = call.pre.used
       /\ lastSwitch = call.pre.lastSwitch

\* C17 witness: a session pinned to cp852, with pages in the Encoder
\* memory, was un-pinned.
C17_Witness ==
    /\ call.op = "force_encoding"
    /\ call.name = None
    /\ call.pre.disabled
    /\ call.pre.encoding = "cp852"
    /\ call.pre.used # {}
    /\ ~disabled
    /\ encoding = "cp852"

\* C18: the sink never receives a switch command for the page of the
\* switch command it received last.
C18_NoRedundantSwitch ==
    \A i \in 1..Len(call.out) :
        call.out[i].kind = "switch" => call.out[i].page # SwitchBefore(i)

\* C19: the tracked page is unset or a page of the profile, and every
\* switch command sent carries the selector of a profile page.
C19_TrackedPageInProfile ==
    /\ encoding = None \/ encoding \in DOMAIN codepages
    /\ \A i \in 1..Len(call.out) :
          call.out[i].kind = "switch" =>
              /\ call.out[i].page \in DOMAIN codepages
              /\ call.out[i] = SwitchItem(call.out[i].page,
                                          codepages[call.out[i].page])

\* C20: in automatic mode with a fallback character that some profile page
\* encodes, write(text) returns having sent one chunk per character of
\* text, in order: the i-th chunk is the one-byte encoding, under the
\* chunk's page, of the i-th character if some profile page encodes it and
\* of the fallback character otherwise.
C20_OneChunkPerCharacter ==
    (AutoWrite /\ \E p \in DOMAIN codepages : Encodes(p, defaultsymbol))
    => LET chars == call.text.chars
           chunks == Chunks(call.out)
       IN /\ call.err = ""
          /\ Len(chunks) = Len(chars)
          /\ \A i \in 1..Len(chunks) :
                LET c == IF NoProfilePageEncodes(chars[i])
                         THEN defaultsymbol ELSE chars[i]
                IN /\ Encodes(chunks[i].page, c)
                   /\ chunks[i].bytes = <<PageTable(chunks[i].page)[c]>>

====
